---- MODULE Spec2Model ----
(***************************************************************************)
(* EchoGuard: similarity scoring (QdrantService.search_similar), temporal  *)
(* decay (QdrantService.apply_temporal_decay and                           *)
(* MemoryService.calculate_time_decay) and multi-factor ranking            *)
(* (MemoryService.rank_incidents_by_relevance).                            *)
(*                                                                         *)
(* Units.  Time is counted in minutes (a timestamp is an integer instant,  *)
(* an age is now - timestamp).  A decay factor, a severity weight, a       *)
(* similarity percent and a relevance score are counted in hundredths      *)
(* (1.0 = 100, 87.0 percent = 8700).  hours_old is counted in tenths of an *)
(* hour.  A raw store score is counted in units of 1/100000.               *)
(*                                                                         *)
(* Python values.  A dict is a function whose DOMAIN is its set of keys.   *)
(* A value whose type matters to the code is tagged: Num(v) a number,      *)
(* NoneV the value None, Iso(t) a string datetime.fromisoformat parses to  *)
(* instant t, StrV a string it rejects.                                    *)
(***************************************************************************)
EXTENDS Integers, Sequences, FiniteSets, TLC

VARIABLES
    now,                 \* datetime.now(), in minutes
    pc,                  \* position of the caller: start, searched, decayed, ranked
    hits,                \* the points the vector store answers a query with
    min_score,           \* search_similar's min_score argument (1/100000)
    results,             \* the list search_similar returned (its dicts are mutated in place)
    decayed,             \* the list apply_temporal_decay returned
    ranked,              \* the list rank_incidents_by_relevance returned
    incident_timestamp,  \* argument of a direct calculate_time_decay call
    ret,                 \* what the direct calculate_time_decay call returned
    api,                 \* the store API whose answer search_similar formatted
    raised,              \* the exception the last call let escape to its caller
    image_vector,        \* generate_hybrid_embedding's first argument
    text_vector,         \* generate_hybrid_embedding's second argument
    image_weight,        \* generate_hybrid_embedding's image_weight, in tenths
    fused,               \* what generate_hybrid_embedding returned
    memory_log,          \* MemoryService.memory_log
    snapshot,            \* what the last get_memory_snapshot call returned
    store,               \* the vector store's collection: point id -> writer of the point
    seeded,              \* the point ids the collection held before any user save
    caller,              \* each save_user_incident caller: its position and its locals
    assigned             \* the ids save_user_incident returned, in order of return

fuseVars == <<image_vector, text_vector, image_weight, fused>>
memoryVars == <<memory_log, snapshot>>
storeVars == <<store, seeded, caller, assigned>>

vars == <<now, pc, hits, min_score, results, decayed, ranked,
          incident_timestamp, ret, api, raised, fuseVars, memoryVars, storeVars>>

(***************************************************************************)
(* Bounds of the model.                                                    *)
(***************************************************************************)
MaxAgeMinutes == 6000    \* oldest record age drawn (100 hours)
MaxFutureMinutes == 90   \* furthest future timestamp drawn
MaxHits == 2             \* longest answer of the store
MaxLen == 3              \* longest candidate list handed to rank directly
MaxClockDrift == 1       \* minutes between two datetime.now() calls of one call
MaxRawSteps == 14285     \* raw scores drawn for the conversion: 0, 0.00007, ..., 0.99995
MaxDim == 3              \* longest embedding vector drawn
MaxLog == 6              \* longest memory_log explored
MaxSeed == 3             \* highest point id loaded before the user saves
MaxSaves == 3            \* save_user_incident calls explored
NumCallers == 2          \* sessions calling save_user_incident concurrently

(***************************************************************************)
(* Python values.                                                          *)
(***************************************************************************)
Num(v) == [tag |-> "num", v |-> v]
NoneV == [tag |-> "none"]
Iso(t) == [tag |-> "iso", t |-> t]
StrV == [tag |-> "str"]

EmptyDict == [k \in {} |-> NoneV]

\* dict.get(key, default)
Get(d, key, default) == IF key \in DOMAIN d THEN d[key] ELSE default

\* d[key] = value
Put(d, key, value) ==
    [k \in (DOMAIN d) \cup {key} |-> IF k = key THEN value ELSE d[k]]

Max(a, b) == IF a >= b THEN a ELSE b

\* round(n / d, ndigits) on the scaled integers: nearest, an exact tie to even.
\* (On binary floats a decimal tie may fall to either neighbour; no property
\* below depends on the direction of a tie.)
RoundDiv(n, d) ==
    LET q == n \div d
        r == n % d
    IN  IF 2 * r < d THEN q
        ELSE IF 2 * r > d THEN q + 1
        ELSE IF q % 2 = 0 THEN q ELSE q + 1

(***************************************************************************)
(* Temporal decay.                                                         *)
(***************************************************************************)
decay_hours == 24        \* calculate_time_decay's default window, in hours

\* 1.0 - (hours / 72) * 0.7 clamped at 0.3, as the numerator of a fraction
\* over 43200 (= 60 * 72 * 10): 1.0 is 43200, 0.3 is 12960, and one minute of
\* age costs 7.
RampUnclamped(minutes) == 60 * (decay_hours * 3) * 10 - 7 * minutes
Ramp(minutes) ==
    Max(3 * 60 * (decay_hours * 3), 60 * (decay_hours * 3) * 10 - 7 * minutes)

RampDen == 60 * (decay_hours * 3) * 10

\* MemoryService.calculate_time_decay(incident_timestamp), in hundredths.
\* fromisoformat raises on None (TypeError) and on a malformed string
\* (ValueError); the except branch returns 1.0.
calculate_time_decay(ts, clock) ==
    IF ts.tag # "iso" THEN 100
    ELSE LET minutes == clock - ts.t
         IN  IF minutes <= decay_hours * 60
             THEN 100
             ELSE RoundDiv(Ramp(minutes) * 100, RampDen)

\* The decay_factor of QdrantService.apply_temporal_decay before rounding,
\* as a numerator over RampDen.
QdrantDecayNum(minutes) ==
    IF minutes < 24 * 60 THEN RampDen ELSE Ramp(minutes)

\* A variant of the loop body whose except branch marks the record stale.
DecayResultStaleOnError(result, clock, later) ==
    LET metadata == Get(result, "metadata", EmptyDict)
        ts == Get(metadata, "timestamp", Iso(later))
    IN  IF ts.tag = "iso" /\ "similarity_score" \in DOMAIN result
        THEN LET minutes == clock - ts.t
                 num == IF minutes < 24 * 60 THEN 60 * 72 * 10
                        ELSE Max(3 * 60 * 72, 60 * 72 * 10 - 7 * minutes)
                 r1 == Put(result, "original_score", result.similarity_score)
                 r2 == Put(r1, "similarity_score",
                           Num(RoundDiv(result.similarity_score.v * num, 60 * 72 * 10)))
                 r3 == Put(r2, "time_decay_factor", RoundDiv(num * 100, 60 * 72 * 10))
             IN  Put(r3, "hours_old", RoundDiv(minutes * 10, 60))
        ELSE Put(Put(result, "hours_old", 0), "time_decay_factor", 30)

\* One iteration of apply_temporal_decay's loop: the dict `result` after it.
\* A missing timestamp defaults to a second datetime.now(), `later`.
DecayResult(result, clock, later) ==
    LET metadata == Get(result, "metadata", EmptyDict)
        ts == Get(metadata, "timestamp", Iso(later))
    IN  IF ts.tag = "iso" /\ "similarity_score" \in DOMAIN result
        THEN LET minutes == clock - ts.t
                 num == QdrantDecayNum(minutes)
                 r1 == Put(result, "original_score", result.similarity_score)
                 r2 == Put(r1, "similarity_score",
                           Num(RoundDiv(result.similarity_score.v * num, RampDen)))
                 r3 == Put(r2, "time_decay_factor", RoundDiv(num * 100, RampDen))
             IN  Put(r3, "hours_old", RoundDiv(minutes * 10, 60))
        ELSE Put(Put(result, "hours_old", 0), "time_decay_factor", 100)

\* The permutation list.sort(key, reverse = True) applies to a list whose keys
\* are keys[1..n]: descending, and stable (equal keys keep their order).
RECURSIVE SortPermUnstable(_, _)
SortPermUnstable(keys, n) ==
    IF n = 0 THEN << >>
    ELSE LET prev == SortPermUnstable(keys, n - 1)
             cnt == Cardinality({p \in 1..Len(prev) : keys[prev[p]] > keys[n]})
         IN  SubSeq(prev, 1, cnt) \o <<n>> \o SubSeq(prev, cnt + 1, Len(prev))

RECURSIVE SortPerm(_, _)
SortPerm(keys, n) ==
    IF n = 0 THEN << >>
    ELSE LET prev == SortPerm(keys, n - 1)
             cnt == Cardinality({p \in 1..Len(prev) : keys[prev[p]] >= keys[n]})
         IN  SubSeq(prev, 1, cnt) \o <<n>> \o SubSeq(prev, cnt + 1, Len(prev))

SortDescBy(list, keys) ==
    LET perm == SortPerm(keys, Len(list))
    IN  [i \in 1..Len(list) |-> list[perm[i]]]

\* QdrantService.apply_temporal_decay(results): the input dicts after the
\* loop (mutated in place, in input order) and the returned list (the same
\* dicts, sorted by decayed similarity_score, highest first).
DecayAll(list, clock, later) ==
    [i \in 1..Len(list) |-> DecayResult(list[i], clock, later)]

apply_temporal_decay(list, clock, later) ==
    LET mutated == DecayAll(list, clock, later)
    IN  SortDescBy(mutated, [i \in 1..Len(mutated) |-> mutated[i].similarity_score.v])

(***************************************************************************)
(* Similarity scoring.                                                     *)
(***************************************************************************)
\* round(float(result.score) * 100, 2): a raw score in 1/100000 becomes a
\* percent in hundredths.
ToPercentTruncated(score) == score \div 10
ToPercent(score) == RoundDiv(score, 10)

\* The dict search_similar builds for one point of the store's answer
\* (the same expression on the search_points path and on the search path).
FormatHit(hit) ==
    [crisis_id |-> hit.id,
     similarity_score |-> Num(ToPercent(hit.score)),
     metadata |-> hit.payload]

FormatAll(points) == [i \in 1..Len(points) |-> FormatHit(points[i])]

\* What one call of a store API does: it answers, raises AttributeError or
\* TypeError (the method does not exist in this client version), or raises
\* another exception (the store is unavailable).
ApiOutcomes == {"answers", "attribute_error", "unavailable"}

\* How a call ends: with a returned value, or with an exception escaping.
Returns(value) == [value |-> value, exc |-> "none"]
Raises(exc) == [value |-> << >>, exc |-> exc]

\* The inner try of search_similar: search_points; on AttributeError or
\* TypeError the fallback search, whose every exception is caught and answered
\* with [].  Another exception of search_points leaves the inner try.
InnerTry(points, new_api, old_api) ==
    IF new_api = "answers" THEN Returns(FormatAll(points))
    ELSE IF new_api = "attribute_error"
         THEN IF old_api = "answers" THEN Returns(FormatAll(points))
              ELSE Returns(<< >>)
    ELSE Raises("Exception")

\* The outer try: except Exception: return [].  And a variant without it.
OuterTryPropagating(outcome) == outcome

OuterTry(outcome) == IF outcome.exc # "none" THEN Returns(<< >>) ELSE outcome

\* QdrantService.search_similar: how the call ends, given what search_points
\* and search do.
search_similar(points, new_api, old_api) ==
    OuterTry(InnerTry(points, new_api, old_api))

\* The store API whose answer search_similar formatted.
AnsweringApi(new_api, old_api) ==
    IF new_api = "answers" THEN "search_points"
    ELSE IF new_api = "attribute_error" /\ old_api = "answers" THEN "search"
    ELSE "none"

(***************************************************************************)
(* Relevance ranking.                                                      *)
(***************************************************************************)
\* config.SEVERITY_LEVELS: label -> weight, in hundredths.
SEVERITY_LEVELS == [high |-> 80]

SeverityOf(incident) ==
    LET label == Get(incident, "severity", "medium")
    IN  IF label \in DOMAIN SEVERITY_LEVELS THEN SEVERITY_LEVELS[label] ELSE 50

\* incident.get("similarity_score", 0.5): 0.5 percent is 50 hundredths.
SimilarityOf(incident) == Get(incident, "similarity_score", Num(50))

\* The body of rank's try block raises (TypeError) when the similarity is
\* not a number; the except branch prints and the incident is not appended.
ScoringRaises(incident) == SimilarityOf(incident).tag # "num"

\* combined_score in thousandths: similarity * 0.5 + (time_decay * 100) * 0.3
\* + (severity * 100) * 0.2.
CombinedScoreOtherBlend(incident, clock) ==
    SimilarityOf(incident).v * 3
    + calculate_time_decay(Get(incident, "timestamp", NoneV), clock) * 500
    + SeverityOf(incident) * 200
CombinedScore(incident, clock) ==
    SimilarityOf(incident).v * 5
    + calculate_time_decay(Get(incident, "timestamp", NoneV), clock) * 300
    + SeverityOf(incident) * 200

\* incident_copy with relevance_score = round(combined_score, 2).
ScoreIncident(incident, clock) ==
    Put(incident, "relevance_score", RoundDiv(CombinedScore(incident, clock), 10))

\* scored_incidents after the loop.
RECURSIVE ScoreAll(_, _)
ScoreAll(incidents, clock) ==
    IF incidents = << >> THEN << >>
    ELSE LET head == Head(incidents)
             rest == ScoreAll(Tail(incidents), clock)
         IN  IF ScoringRaises(head) THEN rest
             ELSE <<ScoreIncident(head, clock)>> \o rest

\* MemoryService.rank_incidents_by_relevance(incidents).
rank_incidents_by_relevance(incidents, clock) ==
    LET scored == ScoreAll(incidents, clock)
    IN  SortDescBy(scored, [i \in 1..Len(scored) |-> scored[i].relevance_score])

(***************************************************************************)
(* Inputs.                                                                 *)
(***************************************************************************)
\* Raw scores the store may answer with: cosine similarity lies in [-1, 1].
HitScores == {0 - 20000, 60000, 87000, 87006, 100000}

\* Payloads of stored points: none, a timestamp that is None, an unparsable
\* timestamp, and records 10, 24 and 96 hours old.
HitPayloads ==
    {EmptyDict,
     [timestamp |-> NoneV],
     [timestamp |-> StrV],
     [timestamp |-> Iso(0 - 600), severity |-> "high"],
     [timestamp |-> Iso(0 - 1440)],
     [timestamp |-> Iso(0 - 5760), severity |-> "high"]}

HitShapes == [score : HitScores, payload : HitPayloads]

MinScores == {0, 70000}

\* Arguments of a direct calculate_time_decay call.
TimestampInputs ==
    {Iso(0 - a) : a \in (0 - MaxFutureMinutes)..MaxAgeMinutes} \cup {StrV, NoneV}

\* Candidates handed to rank directly: each field present or missing.
CandidateShapes ==
    [sim : {"missing", "none", "87.00", "87.01"},
     sev : {"missing", "high"},
     ts : {"missing", "10h", "96h"}]

Candidate(shape, id) ==
    LET c0 == [crisis_id |-> id]
        c1 == CASE shape.sim = "missing" -> c0
                [] shape.sim = "none" -> Put(c0, "similarity_score", NoneV)
                [] shape.sim = "87.00" -> Put(c0, "similarity_score", Num(8700))
                [] OTHER -> Put(c0, "similarity_score", Num(8701))
        c2 == IF shape.sev = "missing" THEN c1 ELSE Put(c1, "severity", shape.sev)
    IN  CASE shape.ts = "missing" -> c2
          [] shape.ts = "10h" -> Put(c2, "timestamp", Iso(0 - 600))
          [] OTHER -> Put(c2, "timestamp", Iso(0 - 5760))

NoReturn == [op |-> "none"]

\* The components a specification does not exercise, before any call.
IdleFuse ==
    /\ image_vector = << >>
    /\ text_vector = << >>
    /\ image_weight = 0
    /\ fused = NoReturn

IdleMemory ==
    /\ memory_log = << >>
    /\ snapshot = NoReturn

IdleStore ==
    /\ store = EmptyDict
    /\ seeded = {}
    /\ caller = EmptyDict
    /\ assigned = << >>

IdlePipeline ==
    /\ pc = "off"
    /\ hits = << >>
    /\ min_score = 0
    /\ results = << >>
    /\ decayed = << >>
    /\ ranked = << >>
    /\ incident_timestamp = NoneV
    /\ ret = NoReturn
    /\ api = "none"

(***************************************************************************)
(* Operations.                                                             *)
(***************************************************************************)
\* qdrant_service.search_similar(query_vector, top_k, min_score)
SearchSimilar ==
    /\ pc = "start"
    /\ \E new_api \in ApiOutcomes, old_api \in ApiOutcomes :
          /\ results' = search_similar(hits, new_api, old_api).value
          /\ raised' = search_similar(hits, new_api, old_api).exc
          /\ api' = AnsweringApi(new_api, old_api)
    /\ pc' = "searched"
    /\ UNCHANGED <<now, hits, min_score, decayed, ranked, incident_timestamp, ret>>
    /\ UNCHANGED <<fuseVars, memoryVars, storeVars>>

\* qdrant_service.apply_temporal_decay(results)
ApplyTemporalDecay ==
    /\ pc = "searched"
    /\ \E drift \in 0..MaxClockDrift :
          /\ results' = DecayAll(results, now, now + drift)
          /\ decayed' = apply_temporal_decay(results, now, now + drift)
    /\ pc' = "decayed"
    /\ raised' = "none"
    /\ UNCHANGED <<now, hits, min_score, ranked, incident_timestamp, ret, api>>
    /\ UNCHANGED <<fuseVars, memoryVars, storeVars>>

\* memory_service.rank_incidents_by_relevance(incidents)
RankIncidents ==
    /\ pc = "decayed"
    /\ ranked' = rank_incidents_by_relevance(decayed, now)
    /\ pc' = "ranked"
    /\ raised' = "none"
    /\ UNCHANGED <<now, hits, min_score, results, decayed, incident_timestamp, ret, api>>
    /\ UNCHANGED <<fuseVars, memoryVars, storeVars>>

\* memory_service.calculate_time_decay(incident_timestamp)
CalculateTimeDecay ==
    /\ ret = NoReturn
    /\ ret' = [op |-> "calculate_time_decay",
               value |-> calculate_time_decay(incident_timestamp, now)]
    /\ raised' = "none"
    /\ UNCHANGED <<now, pc, hits, min_score, results, decayed, ranked,
                   incident_timestamp, api>>
    /\ UNCHANGED <<fuseVars, memoryVars, storeVars>>

(***************************************************************************)
(* The pipeline: the store answers a query, search_similar formats the     *)
(* answer, apply_temporal_decay annotates it, rank orders it.              *)
(***************************************************************************)
Init ==
    /\ now = 0
    /\ pc = "start"
    /\ \E n \in 0..MaxHits : \E shape \in [1..n -> HitShapes] :
          hits = [i \in 1..n |->
                    [id |-> i, score |-> shape[i].score, payload |-> shape[i].payload]]
    /\ min_score \in MinScores
    /\ results = << >>
    /\ decayed = << >>
    /\ ranked = << >>
    /\ incident_timestamp = NoneV
    /\ ret = NoReturn
    /\ api = "none"
    /\ raised = "none"
    /\ IdleFuse /\ IdleMemory /\ IdleStore

Next == SearchSimilar \/ ApplyTemporalDecay \/ RankIncidents

Spec == Init /\ [][Next]_vars

(***************************************************************************)
(* The two decay computations applied to one record timestamp.             *)
(***************************************************************************)
InitDecay ==
    /\ now = 0
    /\ pc = "searched"
    /\ hits = << >>
    /\ min_score = 0
    /\ incident_timestamp \in TimestampInputs
    /\ \E percent \in {6000, 8700} :
       \E metadata \in {[timestamp |-> incident_timestamp]}
                       \cup (IF incident_timestamp = NoneV THEN {EmptyDict} ELSE {}) :
          results = <<[crisis_id |-> 1, similarity_score |-> Num(percent),
                       metadata |-> metadata]>>
    /\ decayed = << >>
    /\ ranked = << >>
    /\ ret = NoReturn
    /\ api = "search"
    /\ raised = "none"
    /\ IdleFuse /\ IdleMemory /\ IdleStore

NextDecay == CalculateTimeDecay \/ ApplyTemporalDecay

SpecDecay == InitDecay /\ [][NextDecay]_vars

(***************************************************************************)
(* search_similar applied to a one-point answer, over the raw scores of    *)
(* [0, 1].                                                                 *)
(***************************************************************************)
RawScoreInputs == {7 * k : k \in 0..MaxRawSteps} \cup {87000, 100000}

InitScore ==
    /\ now = 0
    /\ pc = "start"
    /\ \E score \in RawScoreInputs :
          hits = <<[id |-> 1, score |-> score, payload |-> EmptyDict]>>
    /\ min_score = 0
    /\ results = << >>
    /\ decayed = << >>
    /\ ranked = << >>
    /\ incident_timestamp = NoneV
    /\ ret = NoReturn
    /\ api = "none"
    /\ raised = "none"
    /\ IdleFuse /\ IdleMemory /\ IdleStore

NextScore == SearchSimilar

SpecScore == InitScore /\ [][NextScore]_vars

(***************************************************************************)
(* rank_incidents_by_relevance applied to a candidate list.                *)
(***************************************************************************)
InitRank ==
    /\ now = 0
    /\ pc = "decayed"
    /\ hits = << >>
    /\ min_score = 0
    /\ results = << >>
    /\ \E n \in 0..MaxLen : \E shape \in [1..n -> CandidateShapes] :
          decayed = [i \in 1..n |-> Candidate(shape[i], i)]
    /\ ranked = << >>
    /\ incident_timestamp = NoneV
    /\ ret = NoReturn
    /\ api = "none"
    /\ raised = "none"
    /\ IdleFuse /\ IdleMemory /\ IdleStore

NextRank == RankIncidents

SpecRank == InitRank /\ [][NextRank]_vars

(***************************************************************************)
(* Properties.                                                             *)
(***************************************************************************)
Abs(x) == IF x < 0 THEN 0 - x ELSE x

\* The record timestamp apply_temporal_decay read for results[i].
HasIsoTimestamp(result) ==
    /\ "timestamp" \in DOMAIN result.metadata
    /\ result.metadata.timestamp.tag = "iso"

AgeOf(result) == now - result.metadata.timestamp.t

\* C1: a record whose age is at most 24 hours (exactly 24 hours included)
\* gets decay factor exactly 1.0, from calculate_time_decay and from
\* apply_temporal_decay alike.
C1_FreshRecordFullRelevance ==
    /\ (ret # NoReturn /\ incident_timestamp.tag = "iso"
            /\ now - incident_timestamp.t <= 24 * 60)
          => ret.value = 100
    /\ pc = "decayed"
          => \A i \in 1..Len(results) :
                (HasIsoTimestamp(results[i]) /\ AgeOf(results[i]) <= 24 * 60)
                   => results[i].time_decay_factor = 100

\* C2: whatever the age of the record (future timestamps included), the
\* decay factor lies in [0.3, 1.0], from both computations.
C2_DecayWithinFloorAndOne ==
    /\ ret # NoReturn => (ret.value >= 30 /\ ret.value <= 100)
    /\ pc = "decayed"
          => \A i \in 1..Len(results) :
                /\ results[i].time_decay_factor >= 30
                /\ results[i].time_decay_factor <= 100

\* C2 witness: a record older than the whole ramp sits on the floor in both
\* computations.
C2_Witness ==
    /\ ret # NoReturn
    /\ pc = "decayed"
    /\ incident_timestamp.tag = "iso"
    /\ now - incident_timestamp.t = 96 * 60
    /\ ret.value = 30
    /\ results[1].time_decay_factor = 30

\* A candidate that declares similarity, timestamp and severity.
FullyDeclared(c) ==
    /\ "similarity_score" \in DOMAIN c /\ c.similarity_score.tag = "num"
    /\ "timestamp" \in DOMAIN c /\ c.timestamp.tag = "iso"
    /\ "severity" \in DOMAIN c

\* s * 0.5 + (decay(a) * 100) * 0.3 + (severity_weight(l) * 100) * 0.2, in
\* thousandths.
Blend(c) ==
    5 * c.similarity_score.v
    + 300 * calculate_time_decay(c.timestamp, now)
    + 200 * SeverityOf(c)

\* C3 (as stated): the relevance rank assigns is exactly
\* s*0.5 + (decay*100)*0.3 + (severity_weight*100)*0.2.
C3_RelevanceIsExactBlend ==
    pc = "ranked"
       => \A i \in 1..Len(ranked) :
             FullyDeclared(ranked[i])
                => 10 * ranked[i].relevance_score = Blend(ranked[i])

\* C3 (amended): the relevance rank assigns is the 0.5/0.3/0.2 blend rounded
\* to 2 decimal digits, so it is within 0.005 of the blend.
C3_RelevanceIsRoundedBlend ==
    pc = "ranked"
       => \A i \in 1..Len(ranked) :
             FullyDeclared(ranked[i])
                => Abs(10 * ranked[i].relevance_score - Blend(ranked[i])) <= 5

\* C3 witness: similarity 87.0, age 10 hours, severity high: relevance 89.5.
C3_Witness ==
    /\ pc = "ranked"
    /\ \E i \in 1..Len(ranked) :
          /\ FullyDeclared(ranked[i])
          /\ ranked[i].similarity_score.v = 8700
          /\ now - ranked[i].timestamp.t = 10 * 60
          /\ ranked[i].severity = "high"
          /\ ranked[i].relevance_score = 8950

\* C4: rank's output is in descending order of relevance, and candidates of
\* equal relevance keep their input order (candidates carry their input
\* position as crisis_id).
C4_DescendingAndStable ==
    pc = "ranked"
       => \A i \in 1..Len(ranked) : \A j \in 1..Len(ranked) :
             i < j =>
                /\ ranked[i].relevance_score >= ranked[j].relevance_score
                /\ ranked[i].relevance_score = ranked[j].relevance_score
                      => ranked[i].crisis_id < ranked[j].crisis_id

\* C4 witness: three candidates, the first two tied above the third, come
\* out in input order; and a lower candidate placed first has been moved.
C4_Witness ==
    /\ pc = "ranked"
    /\ Len(ranked) = 3
    /\ ranked[1].relevance_score = ranked[2].relevance_score
    /\ ranked[2].relevance_score > ranked[3].relevance_score
    /\ ranked[1].crisis_id = 2
    /\ ranked[2].crisis_id = 3
    /\ ranked[3].crisis_id = 1

\* C5: rank returns exactly one entry per input candidate, whatever the
\* candidates' fields hold.
C5_NoCandidateDropped ==
    pc = "ranked"
       => /\ Len(ranked) = Len(decayed)
          /\ \A k \in 1..Len(decayed) :
                Cardinality({i \in 1..Len(ranked) :
                                ranked[i].crisis_id = decayed[k].crisis_id}) = 1

\* C6: a candidate with no similarity field, no timestamp and no severity is
\* scored with similarity 0, decay 1.0 and weight 0.5: relevance 40.
C6_MissingFieldsScoreForty ==
    pc = "ranked"
       => \A i \in 1..Len(ranked) :
             DOMAIN ranked[i] = {"crisis_id", "relevance_score"}
                => ranked[i].relevance_score = 4000

\* C7: a candidate whose record timestamp is missing or unparsable stays in
\* the result with decay factor 1.0, age 0 and the similarity search_similar
\* gave it; every other candidate is still processed and nothing is raised.
C7_BadTimestampFailsSoft ==
    pc \in {"decayed", "ranked"}
       => /\ raised = "none"
          /\ Len(decayed) = Len(results)
          /\ api # "none" => Len(results) = Len(hits)
          /\ pc = "ranked" => Len(ranked) = Len(decayed)
          /\ \A i \in 1..Len(results) :
                /\ \E j \in 1..Len(decayed) : decayed[j] = results[i]
                /\ "time_decay_factor" \in DOMAIN results[i]
                /\ ~HasIsoTimestamp(results[i])
                      => /\ results[i].time_decay_factor = 100
                         /\ results[i].hours_old = 0
                         /\ 2 * Abs(10 * results[i].similarity_score.v
                                    - hits[results[i].crisis_id].score) <= 10

\* C7 witness: an unparsable timestamp ahead of a 96-hour-old record: the
\* first is kept at decay 1.0, the second is decayed to the floor.
C7_Witness ==
    /\ pc = "decayed"
    /\ Len(results) = 2
    /\ "timestamp" \in DOMAIN results[1].metadata
    /\ results[1].metadata.timestamp = StrV
    /\ results[1].time_decay_factor = 100
    /\ results[1].hours_old = 0
    /\ HasIsoTimestamp(results[2])
    /\ results[2].time_decay_factor = 30

\* C8: every candidate search_similar returns has raw_score >= min_score,
\* also when the store answers with a point below min_score.
C8_ResultsRevalidatedAgainstMinScore ==
    pc # "start"
       => \A i \in 1..Len(results) :
             hits[results[i].crisis_id].score >= min_score

\* C9: a negative raw score makes search_similar fail with InvalidScore; it
\* is never turned into a match percentage.
C9_NegativeScoreRejected ==
    (pc = "searched" /\ api # "none" /\ \E k \in 1..Len(hits) : hits[k].score < 0)
       => /\ raised = "InvalidScore"
          /\ \A i \in 1..Len(results) : hits[results[i].crisis_id].score >= 0

\* C10: on either store API, a raw score in [0, 1] becomes the percentage
\* with 2 decimal digits nearest to raw_score * 100, within [0, 100].
C10_PercentIsRoundedRawTimesHundred ==
    (pc = "searched" /\ api # "none")
       => /\ Len(results) = Len(hits)
          /\ \A i \in 1..Len(results) :
                (hits[i].score >= 0 /\ hits[i].score <= 100000)
                   => /\ results[i].similarity_score.tag = "num"
                      /\ results[i].similarity_score.v >= 0
                      /\ results[i].similarity_score.v <= 10000
                      /\ 2 * Abs(10 * results[i].similarity_score.v - hits[i].score) <= 10

\* C10 witness: raw similarity 0.87 answered by the fallback API gives 87.0.
C10_Witness ==
    /\ pc = "searched"
    /\ api = "search"
    /\ Len(results) >= 1
    /\ hits[1].score = 87000
    /\ results[1].similarity_score = Num(8700)

(***************************************************************************)
(* Vector fusion: CLIPService.generate_hybrid_embedding.                   *)
(*                                                                         *)
(* Vector components are integers and image_weight is counted in tenths,   *)
(* so the weighted sum is kept times 10.  The returned vector is kept as   *)
(* [num, den2]: component i is num[i] / sqrt(den2); den2 = 0 stands for a  *)
(* division by a zero norm.  The final cast to float32 is not modelled.    *)
(***************************************************************************)
RECURSIVE SumSq(_)
SumSq(v) == IF v = << >> THEN 0 ELSE Head(v) * Head(v) + SumSq(Tail(v))

\* numpy broadcasting of two one-dimensional arrays: equal lengths, or one of
\* them of length 1, which is stretched to the other's length; anything else
\* raises ValueError.
Broadcastable(a, b) == Len(a) = Len(b) \/ Len(a) = 1 \/ Len(b) = 1

BroadcastLen(a, b) == IF Len(a) = 1 THEN Len(b) ELSE Len(a)

At(a, i) == IF Len(a) = 1 THEN a[1] ELSE a[i]

\* hybrid = image_vector * image_weight + text_vector * (1.0 - image_weight),
\* times 10.
WeightedSum(a, b, w) ==
    [i \in 1..BroadcastLen(a, b) |-> w * At(a, i) + (10 - w) * At(b, i)]

\* norm = np.linalg.norm(hybrid); if norm > 0: hybrid = hybrid / norm.
\* Two variants: one that divides whatever the norm, one that never divides.
NormalizeAlways(h) == [num |-> h, den2 |-> SumSq(h)]

NormalizeNever(h) == [num |-> h, den2 |-> 100]

Normalize(h) ==
    IF SumSq(h) > 0 THEN [num |-> h, den2 |-> SumSq(h)]
    ELSE [num |-> h, den2 |-> 100]

\* The vectors and weights drawn.
Components == {0 - 1, 0, 1}

Vectors == UNION {[1..n -> Components] : n \in 0..MaxDim}

Weights == {0, 5, 6, 10}

\* clip_service.generate_hybrid_embedding(image_vector, text_vector, image_weight)
GenerateHybridEmbedding ==
    /\ fused = NoReturn
    /\ raised = "none"
    /\ IF Broadcastable(image_vector, text_vector)
       THEN /\ fused' = Normalize(WeightedSum(image_vector, text_vector, image_weight))
            /\ raised' = "none"
       ELSE /\ fused' = NoReturn
            /\ raised' = "ValueError"
    /\ UNCHANGED <<now, pc, hits, min_score, results, decayed, ranked,
                   incident_timestamp, ret, api>>
    /\ UNCHANGED <<image_vector, text_vector, image_weight, memoryVars, storeVars>>

InitFuse ==
    /\ now = 0
    /\ IdlePipeline
    /\ raised = "none"
    /\ image_vector \in Vectors
    /\ text_vector \in Vectors
    /\ image_weight \in Weights
    /\ fused = NoReturn
    /\ IdleMemory /\ IdleStore

NextFuse == GenerateHybridEmbedding

SpecFuse == InitFuse /\ [][NextFuse]_vars

(***************************************************************************)
(* Properties of vector fusion.                                            *)
(***************************************************************************)
IsZeroVector(v) == \A i \in 1..Len(v) : v[i] = 0

\* C11: for input vectors of different dimensions fuse fails; it never
\* returns a fused vector (a vector of length 1 included).
C11_DimensionMismatchFails ==
    Len(image_vector) # Len(text_vector) => fused = NoReturn

\* C12: whenever the weighted sum has norm zero (two zero vectors under any
\* weight in particular), fuse returns the zero vector of the inputs'
\* dimension, not divided by the norm, and raises nothing.
C12_DegenerateSafe ==
    (fused # NoReturn /\ Len(image_vector) = Len(text_vector)
        /\ IsZeroVector(WeightedSum(image_vector, text_vector, image_weight)))
       => /\ raised = "none"
          /\ Len(fused.num) = Len(image_vector)
          /\ IsZeroVector(fused.num)
          /\ fused.den2 > 0

\* C12 witness: two zero vectors of dimension 3 fused with weight 0.6, and
\* (in another state) opposite non-zero vectors cancelling at weight 0.5.
C12_Witness ==
    /\ fused # NoReturn
    /\ image_vector = <<0, 0, 0>>
    /\ text_vector = <<0, 0, 0>>
    /\ image_weight = 6
    /\ fused.num = <<0, 0, 0>>

\* C13: for a non-zero vector a, fuse(a, a, 0.5) has unit Euclidean norm and
\* every component equals a[i] / ||a||.
C13_SelfFusionIsUnitParallel ==
    (fused # NoReturn /\ image_vector = text_vector /\ image_weight = 5
        /\ ~IsZeroVector(image_vector))
       => /\ Len(fused.num) = Len(image_vector)
          /\ SumSq(fused.num) = fused.den2
          /\ \A i \in 1..Len(image_vector) :
                /\ fused.num[i] * fused.num[i] * SumSq(image_vector)
                      = image_vector[i] * image_vector[i] * fused.den2
                /\ fused.num[i] * image_vector[i] >= 0

\* C13 witness: a = (1, -1, 1), of norm sqrt(3), fused with itself.
C13_Witness ==
    /\ fused # NoReturn
    /\ image_weight = 5
    /\ image_vector = <<1, 0 - 1, 1>>
    /\ text_vector = <<1, 0 - 1, 1>>
    /\ fused.num = <<10, 0 - 10, 10>>
    /\ fused.den2 = 300

(***************************************************************************)
(* The incident memory: MemoryService.memory_log.                          *)
(*                                                                         *)
(* Every call reads datetime.now() once; the clock has moved on by the     *)
(* next call, so entries carry strictly increasing timestamps.             *)
(***************************************************************************)
\* The dict create_incident_record builds.
IncidentRecord(clock, vector, text, metadata) ==
    [timestamp |-> Iso(clock),
     image_vector |-> vector,
     text_description |-> text,
     metadata |-> metadata,
     responses |-> << >>,
     lessons_learned |-> << >>]

\* The dict log_decision builds.
DecisionEntry(clock, query, decision, confidence) ==
    [timestamp |-> Iso(clock),
     query |-> query,
     decision |-> decision,
     confidence |-> confidence]

\* self.memory_log.append(entry); and a variant that keeps a window of the
\* five most recent entries.
LogAppendKeepRecent(log, entry) ==
    IF Len(log) >= 5 THEN Tail(log) \o <<entry>> ELSE log \o <<entry>>

LogAppend(log, entry) == log \o <<entry>>

\* self.memory_log[-5:] if self.memory_log else []
LastFive(log) == SubSeq(log, Max(1, Len(log) - 4), Len(log))

\* The dict get_memory_snapshot returns.
MemorySnapshot(log, clock) ==
    [total_incidents |-> Len(log),
     recent_incidents |-> LastFive(log),
     timestamp |-> Iso(clock)]

Descriptions == {"flood", "fire"}

\* memory_service.create_incident_record(image_vector, text_input, metadata)
CreateIncidentRecord ==
    /\ Len(memory_log) < MaxLog
    /\ \E text \in Descriptions :
          memory_log' = LogAppend(memory_log,
                                  IncidentRecord(now, <<1, 0>>, text, EmptyDict))
    /\ now' = now + 1
    /\ raised' = "none"
    /\ UNCHANGED <<pc, hits, min_score, results, decayed, ranked,
                   incident_timestamp, ret, api>>
    /\ UNCHANGED <<snapshot, fuseVars, storeVars>>

\* memory_service.log_decision(query, decision, confidence)
LogDecision ==
    /\ Len(memory_log) < MaxLog
    /\ memory_log' = LogAppend(memory_log,
                               DecisionEntry(now, "flood", "evacuate", 8700))
    /\ now' = now + 1
    /\ raised' = "none"
    /\ UNCHANGED <<pc, hits, min_score, results, decayed, ranked,
                   incident_timestamp, ret, api>>
    /\ UNCHANGED <<snapshot, fuseVars, storeVars>>

\* memory_service.get_memory_snapshot()
GetMemorySnapshot ==
    /\ Len(memory_log) <= MaxLog
    /\ now <= MaxLog + 1
    /\ snapshot' = MemorySnapshot(memory_log, now)
    /\ now' = now + 1
    /\ raised' = "none"
    /\ UNCHANGED <<pc, hits, min_score, results, decayed, ranked,
                   incident_timestamp, ret, api>>
    /\ UNCHANGED <<memory_log, fuseVars, storeVars>>

InitMemory ==
    /\ now = 0
    /\ IdlePipeline
    /\ raised = "none"
    /\ IdleFuse /\ IdleMemory /\ IdleStore

NextMemory == CreateIncidentRecord \/ LogDecision \/ GetMemorySnapshot

SpecMemory == InitMemory /\ [][NextMemory]_vars

(***************************************************************************)
(* Properties of the incident memory.                                      *)
(***************************************************************************)
IsIncident(entry) == "text_description" \in DOMAIN entry

\* The incidents appended before the last snapshot was taken, in order.
IncidentsBeforeSnapshot ==
    LET Before(entry) == IsIncident(entry) /\ entry.timestamp.t < snapshot.timestamp.t
    IN  SelectSeq(memory_log, Before)

\* C14: after any sequence of incident and decision appends, the snapshot
\* holds the min(limit, n) most recently appended incidents, oldest first, and
\* its total count is n, the number of incidents appended (limit being 5, the
\* only limit get_memory_snapshot offers).
C14_SnapshotHoldsRecentIncidents ==
    snapshot # NoReturn
       => /\ snapshot.total_incidents = Len(IncidentsBeforeSnapshot)
          /\ snapshot.recent_incidents = LastFive(IncidentsBeforeSnapshot)

\* C16: the log is append-only: every step of create_incident_record,
\* log_decision and get_memory_snapshot leaves the entries already in the log
\* where they are, unchanged.
C16_LogIsAppendOnly ==
    [][/\ Len(memory_log') >= Len(memory_log)
       /\ SubSeq(memory_log', 1, Len(memory_log)) = memory_log]_vars

\* C16 witness: a log of six entries, incidents and decisions, with a
\* snapshot taken of it.
C16_Witness ==
    /\ Len(memory_log) = 6
    /\ snapshot # NoReturn
    /\ snapshot.total_incidents = 6
    /\ \E i \in 1..6 : IsIncident(memory_log[i])
    /\ \E i \in 1..6 : ~IsIncident(memory_log[i])

(***************************************************************************)
(* Saving user incidents: QdrantService.save_user_incident.                *)
(*                                                                         *)
(* The collection maps a point id to the writer of the point: 0 for a      *)
(* point loaded at start-up, k for the k-th save_user_incident to return.  *)
(***************************************************************************)
ScrollLimit == 1000      \* get_all_crises: client.scroll(limit=1000)

Min(a, b) == IF a <= b THEN a ELSE b

\* len(self.get_all_crises()): one page of at most ScrollLimit points, or the
\* empty list when scroll raises.
ScannedCount(collection, scan) ==
    IF scan = "answers" THEN Min(Cardinality(DOMAIN collection), ScrollLimit) ELSE 0

\* next_id = len(all_crises) + 1
NextId(collection, scan) == ScannedCount(collection, scan) + 1

\* add_point: client.upsert writes the point under its id, replacing a point
\* that has the id; when upsert raises, add_point returns False and the
\* collection is as before.
AddPoint(collection, id, writer, upsert) ==
    IF upsert = "answers" THEN Put(collection, id, writer) ELSE collection

StoreOutcomes == {"answers", "unavailable"}

\* qdrant_service.save_user_incident(image_vector, text_description, metadata),
\* called by one session at a time.  It returns next_id whatever add_point
\* returned.
SaveUserIncident ==
    /\ Len(assigned) < MaxSaves
    /\ \E scan \in StoreOutcomes, upsert \in StoreOutcomes :
          LET next_id == NextId(store, scan)
          IN  /\ store' = AddPoint(store, next_id, Len(assigned) + 1, upsert)
              /\ assigned' = assigned \o <<[id |-> next_id,
                                            stored |-> upsert = "answers"]>>
    /\ raised' = "none"
    /\ UNCHANGED <<now, pc, hits, min_score, results, decayed, ranked,
                   incident_timestamp, ret, api>>
    /\ UNCHANGED <<seeded, caller, fuseVars, memoryVars>>

\* The collection after initialize_with_synthetic_data: points 1..MaxSeed,
\* less those whose add_point failed.
InitSave ==
    /\ now = 0
    /\ IdlePipeline
    /\ raised = "none"
    /\ IdleFuse /\ IdleMemory
    /\ seeded \in SUBSET (1..MaxSeed)
    /\ store = [id \in seeded |-> 0]
    /\ caller = EmptyDict
    /\ assigned = << >>

NextSave == SaveUserIncident

SpecSave == InitSave /\ [][NextSave]_vars

(***************************************************************************)
(* save_user_incident called by concurrent sessions (the services are one  *)
(* shared set of objects, app_fixed.py initialize_services).  A call is    *)
(* two requests to the store: the scroll of get_all_crises, then the       *)
(* upsert of add_point.  Here the store always answers and the collection  *)
(* starts as points 1..n.                                                  *)
(***************************************************************************)
Callers == 1..NumCallers

\* all_crises = self.get_all_crises(); next_id = len(all_crises) + 1
ScanCrises(c) ==
    /\ caller[c].pc = "idle"
    /\ Len(assigned) + Cardinality({d \in Callers : caller[d].pc = "scanned"}) < MaxSaves
    /\ caller' = [caller EXCEPT ![c] = [pc |-> "scanned",
                                        next_id |-> NextId(store, "answers")]]
    /\ raised' = "none"
    /\ UNCHANGED <<now, pc, hits, min_score, results, decayed, ranked,
                   incident_timestamp, ret, api>>
    /\ UNCHANGED <<store, seeded, assigned, fuseVars, memoryVars>>

\* self.add_point(crisis_id=next_id, ...); return next_id
UpsertIncident(c) ==
    /\ caller[c].pc = "scanned"
    /\ store' = AddPoint(store, caller[c].next_id, Len(assigned) + 1, "answers")
    /\ assigned' = assigned \o <<[id |-> caller[c].next_id, stored |-> TRUE]>>
    /\ caller' = [caller EXCEPT ![c] = [pc |-> "idle", next_id |-> 0]]
    /\ raised' = "none"
    /\ UNCHANGED <<now, pc, hits, min_score, results, decayed, ranked,
                   incident_timestamp, ret, api>>
    /\ UNCHANGED <<seeded, fuseVars, memoryVars>>

InitConcurrent ==
    /\ now = 0
    /\ IdlePipeline
    /\ raised = "none"
    /\ IdleFuse /\ IdleMemory
    /\ \E n \in 0..MaxSeed : seeded = 1..n
    /\ store = [id \in seeded |-> 0]
    /\ caller = [c \in Callers |-> [pc |-> "idle", next_id |-> 0]]
    /\ assigned = << >>

NextConcurrent == \E c \in Callers : ScanCrises(c) \/ UpsertIncident(c)

SpecConcurrent == InitConcurrent /\ [][NextConcurrent]_vars

(***************************************************************************)
(* Properties of saving.                                                   *)
(***************************************************************************)
\* Every save that returned is in the collection under the id it returned.
EverySaveRetained ==
    \A k \in 1..Len(assigned) :
       /\ assigned[k].id \in DOMAIN store
       /\ store[assigned[k].id] = k

\* C15: every save succeeds and gets an id above every id assigned before it
\* and above the ids already in the collection; no two saves share an id and
\* no existing point is replaced.
C15_SavedIdsIncreaseAndNeverCollide ==
    /\ \A k \in 1..Len(assigned) :
          /\ assigned[k].stored
          /\ assigned[k].id \notin seeded
          /\ \A j \in 1..(k - 1) : assigned[j].id < assigned[k].id
    /\ \A id \in seeded : id \in DOMAIN store /\ store[id] = 0
    /\ EverySaveRetained

\* C17: under every interleaving of concurrent saves, the saves that have
\* returned are all retained, under pairwise distinct ids.
C17_ConcurrentSavesAllRetained ==
    /\ \A j \in 1..Len(assigned) : \A k \in 1..Len(assigned) :
          j # k => assigned[j].id # assigned[k].id
    /\ EverySaveRetained

(***************************************************************************)
(* Properties of store failures and of the two decay curves.               *)
(***************************************************************************)
\* C18: whatever the store does on search_points and on search, no exception
\* leaves search_similar, and when neither API answered the list returned is
\* empty.
C18_StoreFailureGivesNoCandidates ==
    pc = "searched"
       => /\ raised = "none"
          /\ api = "none" => results = << >>
          /\ api # "none" => Len(results) = Len(hits)

\* C18 witness: the store holds two points and no API answered: the caller
\* gets the empty list.
C18_Witness ==
    /\ pc = "searched"
    /\ api = "none"
    /\ Len(hits) = 2
    /\ results = << >>
    /\ raised = "none"

\* C19: for one and the same record timestamp, calculate_time_decay and the
\* decay factor of apply_temporal_decay are equal.
C19_DecayComputationsAgree ==
    (ret # NoReturn /\ pc = "decayed")
       => ret.value = results[1].time_decay_factor

\* C20: past the 24-hour window the decay has dropped from 1.0 by no more
\* than the slope 0.7/72 per hour times the time past the window (with one
\* hundredth allowed for the rounding to 2 digits): no jump at 24 hours.
C20_RampStartsAtOne ==
    /\ (ret # NoReturn /\ incident_timestamp.tag = "iso"
            /\ now - incident_timestamp.t > 24 * 60)
          => (100 - ret.value) * 432
                <= 7 * (now - incident_timestamp.t - 24 * 60) + 432
    /\ (pc = "decayed" /\ HasIsoTimestamp(results[1])
            /\ AgeOf(results[1]) > 24 * 60)
          => (100 - results[1].time_decay_factor) * 432
                <= 7 * (AgeOf(results[1]) - 24 * 60) + 432

(***************************************************************************)
(* apply_temporal_decay called twice on one list of search results.        *)
(***************************************************************************)
\* Raw scores and payloads of the answers decayed twice: 60.0 and 87.0
\* percent; no payload, an unparsable timestamp, records 10, 24 and 96
\* hours old.
RedecayScores == {60000, 87000}

RedecayPayloads ==
    {EmptyDict,
     [timestamp |-> StrV],
     [timestamp |-> Iso(0 - 600)],
     [timestamp |-> Iso(0 - 1440)],
     [timestamp |-> Iso(0 - 5760)]}

RedecayShapes == [score : RedecayScores, payload : RedecayPayloads]

\* qdrant_service.apply_temporal_decay(results), called again on the list
\* the first call was given.
ApplyTemporalDecayAgain ==
    /\ pc = "decayed"
    /\ \E drift \in 0..MaxClockDrift :
          /\ results' = DecayAll(results, now, now + drift)
          /\ decayed' = apply_temporal_decay(results, now, now + drift)
    /\ pc' = "redecayed"
    /\ raised' = "none"
    /\ UNCHANGED <<now, hits, min_score, ranked, incident_timestamp, ret, api>>
    /\ UNCHANGED <<fuseVars, memoryVars, storeVars>>

\* search_similar has answered through search_points; the clock stands still.
InitRedecay ==
    /\ now = 0
    /\ pc = "searched"
    /\ \E n \in 0..MaxHits : \E shape \in [1..n -> RedecayShapes] :
          hits = [i \in 1..n |->
                    [id |-> i, score |-> shape[i].score, payload |-> shape[i].payload]]
    /\ min_score = 0
    /\ results = search_similar(hits, "answers", "answers").value
    /\ decayed = << >>
    /\ ranked = << >>
    /\ incident_timestamp = NoneV
    /\ ret = NoReturn
    /\ api = AnsweringApi("answers", "answers")
    /\ raised = "none"
    /\ IdleFuse /\ IdleMemory /\ IdleStore

NextRedecay == ApplyTemporalDecay \/ ApplyTemporalDecayAgain

SpecRedecay == InitRedecay /\ [][NextRedecay]_vars

\* The adjusted score a returned list holds for the candidate of one crisis id.
AdjustedScoreOf(list, id) ==
    list[CHOOSE i \in 1..Len(list) : list[i].crisis_id = id].similarity_score

\* C21: a call of apply_temporal_decay leaves the list passed to it and its
\* records as they were, and a second call on that list at the same clock
\* time returns the adjusted scores the first call returned.
C21_DecayLeavesInputAndRepeats ==
    [][/\ pc' \in {"decayed", "redecayed"} => results' = results
       /\ pc' = "redecayed"
             => \A i \in 1..Len(results) :
                   AdjustedScoreOf(decayed', results[i].crisis_id)
                      = AdjustedScoreOf(decayed, results[i].crisis_id)]_vars

(***************************************************************************)
(* Relevance at the end of the pipeline.                                   *)
(***************************************************************************)
\* The stored point a ranked candidate came from.
HitOf(candidate) == hits[candidate.crisis_id]

\* The decay factors of the candidate's own record timestamp: the one
\* calculate_time_decay gives for it and the one apply_temporal_decay
\* annotated the candidate with.
OwnDecays(candidate) ==
    {calculate_time_decay(Get(HitOf(candidate).payload, "timestamp", NoneV), now),
     candidate.time_decay_factor}

\* original percent * 0.5 + (decay * 100) * 0.3 + (weight * 100) * 0.2 from
\* the candidate's own stored record, in thousandths.
OwnBlend(candidate, decay) ==
    5 * ToPercent(HitOf(candidate).score)
    + 300 * decay
    + 200 * SeverityOf(HitOf(candidate).payload)

\* C22: at the end of search_similar -> apply_temporal_decay ->
\* rank_incidents_by_relevance the relevance of every candidate is the blend
\* of its own original similarity percent, the decay factor of its own
\* record timestamp and the weight of its own severity label (rounded to 2
\* digits).
C22_RelevanceFromOwnRecord ==
    pc = "ranked"
       => \A i \in 1..Len(ranked) :
             \E decay \in OwnDecays(ranked[i]) :
                Abs(10 * ranked[i].relevance_score - OwnBlend(ranked[i], decay)) <= 5

====
